---- MODULE Spec2Model ----
(***************************************************************************)
(* Release widgets of glance (Sonarr, Radarr, arr-stack aggregation).      *)
(*                                                                         *)
(* Every revision of the fetch-and-normalize pipeline found in the source  *)
(* is modelled as an operator computing the function's return value, the   *)
(* HTTP requests it issued and, for the day-offset Sonarr fetch, the       *)
(* window it computed.  One action per function applies the operator to    *)
(* the inputs (configuration, clock, upstream answer) chosen in Init.      *)
(* Further specifications run fetches one after another in one process,    *)
(* the aggregation block by block, and the widgets (ArrReleases,           *)
(* releasesSonarrWidget, FreshRSS) through Initialize and Update.          *)
(*                                                                         *)
(* Conventions                                                             *)
(*   - an instant is a whole number of hours since an epoch; a time.Time   *)
(*     is [inst, zone] with zone the UTC offset in hours (zones have a     *)
(*     fixed offset, no daylight saving);                                  *)
(*   - a URL or any other string the code cuts or joins is a sequence of   *)
(*     tokens, so strings.TrimSuffix and fmt.Sprintf do real work;         *)
(*   - a Go slice is [nil, items]: a nil slice and an empty non-nil slice  *)
(*     are different values;                                               *)
(*   - an error is a string, "nil" being the nil error.                    *)
(***************************************************************************)
EXTENDS Integers, Sequences, FiniteSets, TLC

VARIABLES
    fn,        \* the function the call invokes
    cfg,       \* [Sonarr, Radarr]: the configuration passed to it
    env,       \* [now, local]: time.Now() and the zone of time.Local
    upstream,  \* [Sonarr, Radarr]: what each upstream server answers
    pc,        \* "ready" before the call, "done" after it returned
    requests,  \* the HTTP requests the call issued, in order
    ret,       \* [releases, err]: what the call returned
    win,       \* the window the day-offset fetch computed
    clients,   \* the process-wide HTTP clients the fetches share
    sent,      \* every request sent since the process started, in order
    widget,    \* the widget the host initializes and updates
    accepted   \* the list of the last update the error handler let through

vars == <<fn, cfg, env, upstream, pc, requests, ret, win, clients, sent, widget, accepted>>

(***************************************************************************)
(* Bounds of the model.                                                    *)
(***************************************************************************)
\* Longest upstream response (entries of the decoded JSON array).
MaxEntries == 3
\* Longest answer of each service in an aggregation.
MaxArrEntries == 2
\* Longest answer in the exploration of windows.
MaxWindowEntries == 2

(***************************************************************************)
(* Go values.                                                              *)
(***************************************************************************)
HoursPerDay == 24

NilErr == "nil"

NilSlice == [nil |-> TRUE, items |-> <<>>]
EmptySlice == [nil |-> FALSE, items |-> <<>>]

\* append(s, x)
AppendOne(s, x) == [nil |-> FALSE, items |-> Append(s.items, x)]

\* append(s, t...): appending nothing returns s itself (nil stays nil)
AppendAll(s, t) ==
    IF Len(t.items) = 0 THEN s
    ELSE [nil |-> FALSE, items |-> s.items \o t.items]

\* strings.TrimSuffix(url, "/")
TrimSuffixSlash(url) ==
    IF Len(url) > 0 /\ url[Len(url)] = "/"
    THEN SubSeq(url, 1, Len(url) - 1)
    ELSE url

SeqsUpTo(S, n) == UNION {[1..k -> S] : k \in 0..n}

(***************************************************************************)
(* package time                                                            *)
(***************************************************************************)
Time(inst, zone) == [inst |-> inst, zone |-> zone]

\* the calendar day and the hour of t on its own wall clock
DayOf(t) == (t.inst + t.zone) \div HoursPerDay
HourOf(t) == (t.inst + t.zone) % HoursPerDay

\* t.In(zone), t.UTC()
In(t, zone) == Time(t.inst, zone)
UTC(t) == In(t, 0)

\* t.AddDate(0, 0, days)
AddDate(t, days) == Time(t.inst + days * HoursPerDay, t.zone)

Before(t, u) == t.inst < u.inst
After(t, u) == t.inst > u.inst

\* The IANA names time.LoadLocation knows, with their offsets.
KnownZones == {"America/Bogota", "Europe/Lagos", "Pacific/Kiritimati"}
ZoneOffset(name) ==
    CASE name = "America/Bogota" -> 0 - 5
      [] name = "Europe/Lagos" -> 1
      [] name = "Pacific/Kiritimati" -> 14
      [] OTHER -> 0

\* time.LoadLocation(name)
LoadLocation(name) ==
    IF name \in KnownZones
    THEN [err |-> NilErr, zone |-> ZoneOffset(name)]
    ELSE [err |-> "unknown time zone", zone |-> 0]

\* A date string of a response is [kind, inst]:
\*   "rfc3339": 2006-01-02T15:04:05Z, the instant inst
\*   "date":    2006-01-02, the day starting at inst
\*   "empty":   the empty string;  "garbage": anything else
DateString(kind, inst) == [kind |-> kind, inst |-> inst]
EmptyDate == DateString("empty", 0)
GarbageDate == DateString("garbage", 0)

\* time.Parse(time.RFC3339, s)
ParseRFC3339(s) ==
    IF s.kind = "rfc3339"
    THEN [err |-> NilErr, t |-> Time(s.inst, 0)]
    ELSE [err |-> "parsing time", t |-> Time(0, 0)]

\* time.Parse("2006-01-02", s)
ParseDateOnly(s) ==
    IF s.kind = "date"
    THEN [err |-> NilErr, t |-> Time(s.inst, 0)]
    ELSE [err |-> "parsing time", t |-> Time(0, 0)]

\* t.Format("01-02 15:04") and t.Format("01/02 15:04"): the month-day and
\* the hour of t's wall clock; the year and the zone are not printed.
FormatTime(t, layout) ==
    [prefix |-> "", layout |-> layout, day |-> DayOf(t), hour |-> HourOf(t)]

\* prefix + formatted
WithPrefix(prefix, formatted) == [formatted EXCEPT !.prefix = prefix]

(***************************************************************************)
(* fmt.Sprintf("%02d", n) and strconv.Atoi                                 *)
(***************************************************************************)
DigitChar(d) ==
    CASE d = 0 -> "0" [] d = 1 -> "1" [] d = 2 -> "2" [] d = 3 -> "3"
      [] d = 4 -> "4" [] d = 5 -> "5" [] d = 6 -> "6" [] d = 7 -> "7"
      [] d = 8 -> "8" [] OTHER -> "9"

DigitValue(c) ==
    CASE c = "0" -> 0 [] c = "1" -> 1 [] c = "2" -> 2 [] c = "3" -> 3
      [] c = "4" -> 4 [] c = "5" -> 5 [] c = "6" -> 6 [] c = "7" -> 7
      [] c = "8" -> 8 [] OTHER -> 9

RECURSIVE Digits(_)
\* the decimal digits of n >= 0, most significant first
Digits(n) ==
    IF n < 10 THEN <<DigitChar(n)>>
    ELSE Append(Digits(n \div 10), DigitChar(n % 10))

\* %02d keeps only the last two digits (what a fixed-width field would do)
Sprintf02dTruncating(n) ==
    IF n < 0 THEN <<"-">> \o Digits(0 - n)
    ELSE <<DigitChar((n \div 10) % 10), DigitChar(n % 10)>>

\* fmt.Sprintf("%02d", n): width 2 is a minimum, the sign counts in it
Sprintf02d(n) ==
    IF n < 0 THEN <<"-">> \o Digits(0 - n)
    ELSE IF n < 10 THEN <<"0">> \o Digits(n)
    ELSE Digits(n)

RECURSIVE AtoiDigits(_)
AtoiDigits(s) ==
    IF Len(s) = 0 THEN 0
    ELSE 10 * AtoiDigits(SubSeq(s, 1, Len(s) - 1)) + DigitValue(s[Len(s)])

\* strconv.Atoi(s) of a well-formed decimal
Atoi(s) ==
    IF Len(s) > 0 /\ s[1] = "-" THEN 0 - AtoiDigits(Tail(s))
    ELSE AtoiDigits(s)

(***************************************************************************)
(* Records of the program.                                                 *)
(***************************************************************************)
\* SonarrConfig / RadarrConfig / sonarrConfig (Endpoint of the arr-stack
\* revision is InternalUrl here)
Config(enable, internalUrl, skipSsl, apiKey, externalUrl, timezone, dayOffset, fromPreviousDays, tags, internalThumbnail) ==
    [Enable |-> enable, InternalUrl |-> internalUrl, SkipSsl |-> skipSsl,
     ApiKey |-> apiKey, ExternalUrl |-> externalUrl, Timezone |-> timezone,
     DayOffset |-> dayOffset, FromPreviousDays |-> fromPreviousDays,
     Tags |-> tags, InternalThumbnail |-> internalThumbnail]

\* SonarrReleaseResponse (Series flattened)
SonarrEntry(hasFile, seriesId, season, episode, seriesTitle, images, slug, airDateUtc, episodeTitle, overview) ==
    [HasFile |-> hasFile, SeriesId |-> seriesId, SeasonNumber |-> season,
     EpisodeNumber |-> episode, SeriesTitle |-> seriesTitle,
     Images |-> images, TitleSlug |-> slug, AirDateUtc |-> airDateUtc,
     EpisodeTitle |-> episodeTitle, Overview |-> overview]

\* RadarrReleaseResponse
RadarrEntry(hasFile, title, images, inCinemas, physical, digital, releaseDate, slug, overview) ==
    [HasFile |-> hasFile, Title |-> title, Images |-> images,
     InCinemasDate |-> inCinemas, PhysicalReleaseDate |-> physical,
     DigitalReleaseDate |-> digital, ReleaseDate |-> releaseDate,
     TitleSlug |-> slug, Overview |-> overview]

Image(coverType, remoteUrl) == [CoverType |-> coverType, RemoteUrl |-> remoteUrl]

\* SonarrRelease / RadarrRelease / ArrRelease / releaseSonarr: a field a
\* revision's struct lacks or leaves unset holds its zero value ("" or <<>>;
\* a nil *string is <<>>).
Release(title, overview, episodeTitle, imageCoverUrl, airDateUtc, seasonNumber, episodeNumber, grabbed, url) ==
    [Title |-> title, Overview |-> overview, EpisodeTitle |-> episodeTitle,
     ImageCoverUrl |-> imageCoverUrl, AirDateUtc |-> airDateUtc,
     SeasonNumber |-> seasonNumber, EpisodeNumber |-> episodeNumber,
     Grabbed |-> grabbed, Url |-> url]

\* What a fetch function did: its return values, the requests it issued
\* and the window it computed.
NoWindow ==
    [set |-> FALSE, previousDays |-> 0, timeLocal |-> 0,
     startDateUTC |-> Time(0, 0), endDateUTC |-> Time(0, 0),
     startDateLocal |-> Time(0, 0), endDateLocal |-> Time(0, 0),
     queryStart |-> Time(0, 0), queryEnd |-> Time(0, 0)]

Outcome(releases, err, reqs, window) ==
    [releases |-> releases, err |-> err, requests |-> reqs, win |-> window]

Failure(err, reqs, window) == Outcome(NilSlice, err, reqs, window)

(***************************************************************************)
(* HTTP.  An upstream answer is [fail, entries]: fail is "none" (status    *)
(* 200 and a JSON array decoding to entries), "transport" (client.Do       *)
(* fails), "status" (a status other than 200) or "malformed" (status 200   *)
(* and a body that is not the expected JSON).                              *)
(***************************************************************************)
Answer(fail, entries) == [fail |-> fail, entries |-> entries]

\* An issued request.  client is "default" (defaultClient, validating
\* certificates), "insecure" (defaultInsecureClient) or, for FetchApi's
\* per-call client, "own-verifying" / "own-insecure".  start and end are
\* the instants of the start= and end= parameters when ranged.
Request(svc, client, url, apiKey, ranged, start, end) ==
    [svc |-> svc, client |-> client, url |-> url, apiKey |-> apiKey,
     ranged |-> ranged, start |-> start, end |-> end]

\* decodeJsonFromRequest[T](client, request)
decodeJsonFromRequest(answer) ==
    CASE answer.fail = "transport" -> [err |-> "transport", result |-> <<>>]
      [] answer.fail = "status" -> [err |-> "unexpected status code", result |-> <<>>]
      [] answer.fail = "malformed" -> [err |-> "json", result |-> <<>>]
      [] OTHER -> [err |-> NilErr, result |-> answer.entries]

\* FetchApi(apiAddress, apiEndpoint, apiKey, skipSsl): the body, or an error
FetchApi(answer) ==
    CASE answer.fail = "transport" -> [err |-> "failed to make request", body |-> Answer("none", <<>>)]
      [] answer.fail = "status" -> [err |-> "unexpected status code", body |-> Answer("none", <<>>)]
      [] OTHER -> [err |-> NilErr, body |-> answer]

\* json.Unmarshal(body, &releases)
Unmarshal(body) ==
    IF body.fail = "malformed"
    THEN [err |-> "failed to unmarshal JSON", result |-> <<>>]
    ELSE [err |-> NilErr, result |-> body.entries]

\* the client FetchApi builds for one call
FetchApiClient(skipSsl) == IF skipSsl THEN "own-insecure" ELSE "own-verifying"

\* the request FetchApi sends
FetchApiRequest(svc, apiAddress, apiKey, skipSsl) ==
    Request(svc, FetchApiClient(skipSsl),
            TrimSuffixSlash(apiAddress) \o <<"/api/v3/calendar", "?includeSeries=true">>,
            apiKey, FALSE, 0, 0)

\* a choice that takes the non-validating client whatever the flag
sonarrSkipSslAlways(skipSsl) == "insecure"

\* sonarrSkipSsl(skipSsl), and the same choice inlined in package feed
sonarrSkipSsl(skipSsl) == IF skipSsl THEN "insecure" ELSE "default"

\* defaultClient and defaultInsecureClient (defaultHTTPClient and
\* defaultInsecureHTTPClient in package glance): the InsecureSkipVerify
\* setting of the two clients every fetch of the process shares
SharedClients == [default |-> FALSE, insecure |-> TRUE]

\* whether client, as configured when the request goes out, skips the
\* validation of the server certificate
InsecureSkipVerify(client, shared) ==
    CASE client = "default" -> shared.default
      [] client = "insecure" -> shared.insecure
      [] client = "own-insecure" -> TRUE
      [] OTHER -> FALSE

\* what goes on the wire for one request of a call made under configs
Sent(request, configs, shared) ==
    [svc |-> request.svc,
     skipSsl |-> CASE request.svc = "sonarr" -> configs.Sonarr.SkipSsl
                   [] request.svc = "radarr" -> configs.Radarr.SkipSsl
                   [] OTHER -> FALSE,
     client |-> request.client,
     insecureSkipVerify |-> InsecureSkipVerify(request.client, shared)]

SentAll(reqs, configs, shared) == [i \in 1..Len(reqs) |-> Sent(reqs[i], configs, shared)]

(***************************************************************************)
(* Formatting shared by the revisions.                                     *)
(***************************************************************************)
\* a loop that hands back what it had normalized so far with the error
LoopAbortKeepingReleases(releases, err) == [releases |-> releases, err |-> err]

\* return nil, err inside the loop over the response
LoopAbort(releases, err) == [releases |-> NilSlice, err |-> err]

\* the checks every fetch starts with, the API key forgotten
MissingConfigUrlOnly(config) ==
    IF config.InternalUrl = <<>> THEN "missing internal-url config" ELSE NilErr

RECURSIVE FirstPosterFrom(_, _)
FirstPosterFrom(images, i) ==
    IF i > Len(images) THEN <<>>
    ELSE IF images[i].CoverType = "poster" THEN images[i].RemoteUrl
    ELSE FirstPosterFrom(images, i + 1)

\* the loop picking the first image whose coverType is "poster"
FirstPoster(images) == FirstPosterFrom(images, 1)

\* the overview to display
DisplayOverview(overview) == IF overview = "" THEN "TBA" ELSE overview

\* a base that prefers the internal URL
LinkBaseInternalFirst(config) ==
    IF config.InternalUrl # <<>> THEN config.InternalUrl ELSE config.ExternalUrl

\* the base of a deep link: the external URL, else the internal one
LinkBase(config) ==
    IF config.ExternalUrl # <<>> THEN config.ExternalUrl ELSE config.InternalUrl

\* fmt.Sprintf("%s/series/%s", strings.TrimSuffix(url, "/"), slug)
SeriesLink(config, slug) == TrimSuffixSlash(LinkBase(config)) \o <<"/series/", slug>>

\* fmt.Sprintf("%s/movie/%s", strings.TrimSuffix(url, "/"), slug)
MovieLink(config, slug) == TrimSuffixSlash(LinkBase(config)) \o <<"/movie/", slug>>

\* HandleReleaseDatesTimezone(airDate, CustomTimezone), layout 01/02 15:04
HandleReleaseDatesTimezone(airDate, customTimezone) ==
    IF customTimezone # ""
    THEN LET location == LoadLocation(customTimezone)
         IN  IF location.err # NilErr
             THEN [err |-> "failed to load location", formatted |-> FormatTime(airDate, "")]
             ELSE [err |-> NilErr,
                   formatted |-> FormatTime(In(airDate, location.zone), "01/02 15:04")]
    ELSE [err |-> NilErr, formatted |-> FormatTime(airDate, "01/02 15:04")]

\* HandleRadarrReleaseDatesTimezone(airDate, CustomTimezone), layout 01-02 15:04
HandleRadarrReleaseDatesTimezone(airDate, customTimezone) ==
    IF customTimezone # ""
    THEN LET location == LoadLocation(customTimezone)
         IN  IF location.err # NilErr
             THEN [err |-> "failed to load location", formatted |-> FormatTime(airDate, "")]
             ELSE [err |-> NilErr,
                   formatted |-> FormatTime(In(airDate, location.zone), "01-02 15:04")]
    ELSE [err |-> NilErr, formatted |-> FormatTime(airDate, "01-02 15:04")]

\* the checks every fetch starts with
MissingConfig(config) ==
    IF config.InternalUrl = <<>> THEN "missing internal-url config"
    ELSE IF config.ApiKey = "" THEN "missing apikey config"
    ELSE NilErr

(***************************************************************************)
(* The day-offset Sonarr fetch: its window.                                *)
(***************************************************************************)
\* getStartOfDay(t, loc): midnight, in loc, of the calendar day t shows
getStartOfDay(t, zone) == Time(DayOf(t) * HoursPerDay - zone, zone)

\* getEndOfDay(t, loc): the last instant, in loc, of the calendar day t shows
getEndOfDay(t, zone) == Time(DayOf(t) * HoursPerDay + (HoursPerDay - 1) - zone, zone)

\* a clamp: values below 0 give 0, values above 6 give 6
ClampedPreviousDays(fromPreviousDays) ==
    IF fromPreviousDays < 0 THEN 0
    ELSE IF fromPreviousDays > 6 THEN 6
    ELSE fromPreviousDays

\* if Sonarr.FromPreviousDays < 0 || Sonarr.FromPreviousDays > 6 { ... = 0 }
EffectivePreviousDays(fromPreviousDays) ==
    IF fromPreviousDays < 0 \/ fromPreviousDays > 6 THEN 0
    ELSE fromPreviousDays

\* the day offset applied to one of the two reference times
OffsetTime(t, dayOffset) == IF dayOffset # 0 THEN AddDate(t, dayOffset) ELSE t


\* startDateUTC = startDateUTC.AddDate(0, 0, -Sonarr.FromPreviousDays)
LookbackUTC(startDateUTC, previousDays) ==
    IF previousDays # 0 THEN AddDate(startDateUTC, 0 - previousDays) ELSE startDateUTC

\* a lookback that moves the UTC start only
LookbackLocalUnmoved(startDateLocal, previousDays) == startDateLocal

\* startDateLocal = startDateLocal.AddDate(0, 0, -Sonarr.FromPreviousDays)
LookbackLocal(startDateLocal, previousDays) ==
    IF previousDays # 0 THEN AddDate(startDateLocal, 0 - previousDays) ELSE startDateLocal

\* the "Query +-1 date range" of the request
QueryStart(startDateUTC) == AddDate(startDateUTC, 0 - 1)
QueryEnd(endDateUTC) == AddDate(endDateUTC, 1)

\* the zone the acceptance window and the display use
ResolveZone(config, e) ==
    IF config.Timezone # "" THEN LoadLocation(config.Timezone)
    ELSE [err |-> NilErr, zone |-> e.local]

\* lines 61-101 of FetchReleasesFromSonarr, once the zone is resolved
SonarrWindow(config, e, zone) ==
    LET previousDays == EffectivePreviousDays(config.FromPreviousDays)
        now == Time(e.now, e.local)
        timeSetLocal == OffsetTime(now, config.DayOffset)
        timeSetUTC == OffsetTime(UTC(now), config.DayOffset)
        startDateUTC == LookbackUTC(getStartOfDay(timeSetUTC, 0), previousDays)
        endDateUTC == getEndOfDay(timeSetUTC, 0)
        startDateLocal == LookbackLocal(getStartOfDay(timeSetLocal, zone), previousDays)
        endDateLocal == getEndOfDay(timeSetLocal, zone)
    IN  [set |-> TRUE, previousDays |-> previousDays, timeLocal |-> zone,
         startDateUTC |-> startDateUTC, endDateUTC |-> endDateUTC,
         startDateLocal |-> startDateLocal, endDateLocal |-> endDateLocal,
         queryStart |-> QueryStart(startDateUTC), queryEnd |-> QueryEnd(endDateUTC)]

\* a filter that drops the entries airing at the very end of the day
InWindowEndExclusive(airDateLocal, w) ==
    ~(Before(airDateLocal, w.startDateLocal) \/ ~Before(airDateLocal, w.endDateLocal))

\* the negation of the loop's "continue" test
InWindow(airDateLocal, w) ==
    ~(Before(airDateLocal, w.startDateLocal) \/ After(airDateLocal, w.endDateLocal))

(***************************************************************************)
(* The day-offset Sonarr fetch (package feed, and the glance widget).      *)
(***************************************************************************)
\* appendTags
AppendTags(config) == IF config.Tags # "" THEN <<"&tags=", config.Tags>> ELSE <<>>

\* dateRangeFilter: the instants travel in the request's start and end
DateRangeFilter == <<"&start=", "&end=">>

\* buildSonarrQuery(urlPath, apiPath, params, apiKey)
buildSonarrQuery(urlPath, apiPath, params, apiKey) ==
    LET appendApiKey == <<"apikey=", apiKey>>
        newParam ==
            IF params # <<>>
            THEN <<"?">> \o params \o (IF apiKey # "" THEN <<"&">> \o appendApiKey ELSE <<>>)
            ELSE IF apiKey # "" THEN <<"?">> \o appendApiKey
            ELSE <<>>
    IN  TrimSuffixSlash(urlPath) \o <<"/api/v3/">> \o apiPath \o newParam

\* the URL requested by the package feed revision
FeedSonarrUrl(config) ==
    TrimSuffixSlash(config.InternalUrl) \o <<"/api/v3/calendar", "?includeSeries=true">>
        \o AppendTags(config) \o DateRangeFilter

\* a request that carries the key in its URL as well
querySonarrApiKeyInUrl(config) ==
    buildSonarrQuery(config.InternalUrl, <<"calendar">>, AppendTags(config) \o DateRangeFilter, config.ApiKey)

\* querySonarrApi(Sonarr.InternalUrl, "calendar", appendParameters, Sonarr.ApiKey)
querySonarrApi(config) ==
    buildSonarrQuery(config.InternalUrl, <<"calendar">>, AppendTags(config) \o DateRangeFilter, "")

\* the cover image of a release; revision is "feed" or "glance"
SonarrImageCover(config, release, revision) ==
    IF revision = "glance" /\ config.InternalThumbnail
    THEN buildSonarrQuery(config.ExternalUrl,
                          <<"mediacover/">> \o Digits(release.SeriesId) \o <<"/poster-500.jpg">>,
                          <<>>, config.ApiKey)
    ELSE FirstPoster(release.Images)

\* the release appended for an entry inside the window
WindowedRelease(config, release, airDateLocal, revision) ==
    Release(release.SeriesTitle, "", release.EpisodeTitle,
            SonarrImageCover(config, release, revision),
            FormatTime(airDateLocal, "01-02 15:04"),
            Sprintf02d(release.SeasonNumber), Sprintf02d(release.EpisodeNumber),
            release.HasFile, SeriesLink(config, release.TitleSlug))

RECURSIVE SonarrWindowLoop(_, _, _, _, _, _)
\* for _, release := range response { ... }, from entry i on
SonarrWindowLoop(config, w, response, i, releases, revision) ==
    IF i > Len(response) THEN [releases |-> releases, err |-> NilErr]
    ELSE LET release == response[i]
             airDate == ParseRFC3339(release.AirDateUtc)
             airDateLocal == In(airDate.t, w.timeLocal)
         IN  IF airDate.err # NilErr THEN LoopAbort(releases, airDate.err)
             ELSE IF ~InWindow(airDateLocal, w)
             THEN SonarrWindowLoop(config, w, response, i + 1, releases, revision)
             ELSE SonarrWindowLoop(config, w, response, i + 1,
                      AppendOne(releases, WindowedRelease(config, release, airDateLocal, revision)),
                      revision)

\* the body shared by FetchReleasesFromSonarr (package feed) and
\* fetchReleasesFromSonarr (package glance)
DayOffsetFetch(config, e, answer, revision) ==
    LET missing == MissingConfig(config)
        loc == ResolveZone(config, e)
        w == SonarrWindow(config, e, loc.zone)
        url == IF revision = "glance" THEN querySonarrApi(config) ELSE FeedSonarrUrl(config)
        request == Request("sonarr", sonarrSkipSsl(config.SkipSsl), url, config.ApiKey,
                           TRUE, w.queryStart.inst, w.queryEnd.inst)
        decoded == decodeJsonFromRequest(answer)
        looped == SonarrWindowLoop(config, w, decoded.result, 1, NilSlice, revision)
    IN  IF missing # NilErr THEN Failure(missing, <<>>, NoWindow)
        ELSE IF loc.err # NilErr THEN Failure(loc.err, <<>>, NoWindow)
        ELSE IF decoded.err # NilErr THEN Failure(decoded.err, <<request>>, w)
        ELSE Outcome(looped.releases, looped.err, <<request>>, w)

\* feed.FetchReleasesFromSonarr(Sonarr), day-offset revision
FetchReleasesFromSonarr(config, e, answer) == DayOffsetFetch(config, e, answer, "feed")

\* glance.fetchReleasesFromSonarr(Sonarr)
fetchReleasesFromSonarr(config, e, answer) == DayOffsetFetch(config, e, answer, "glance")

(***************************************************************************)
(* The Sonarr fetch built on FetchApi (the standalone revision and the     *)
(* arr-stack revision have the same body).                                 *)
(***************************************************************************)
RECURSIVE SonarrLoop(_, _, _, _)
SonarrLoop(config, response, i, releases) ==
    IF i > Len(response) THEN [releases |-> releases, err |-> NilErr]
    ELSE LET release == response[i]
             airDate == ParseRFC3339(release.AirDateUtc)
             formattedDate == HandleReleaseDatesTimezone(airDate.t, config.Timezone)
         IN  IF airDate.err # NilErr
             THEN LoopAbort(releases, "failed to parse air date")
             ELSE IF formattedDate.err # NilErr
             THEN LoopAbort(releases, "failed to parse air timezone")
             ELSE SonarrLoop(config, response, i + 1,
                      AppendOne(releases,
                          Release(release.SeriesTitle, DisplayOverview(release.Overview), "",
                                  FirstPoster(release.Images), formattedDate.formatted,
                                  Sprintf02d(release.SeasonNumber),
                                  Sprintf02d(release.EpisodeNumber),
                                  release.HasFile, SeriesLink(config, release.TitleSlug))))

FetchApiSonarr(config, answer) ==
    LET missing == MissingConfig(config)
        request == FetchApiRequest("sonarr", config.InternalUrl, config.ApiKey, config.SkipSsl)
        fetched == FetchApi(answer)
        decoded == Unmarshal(fetched.body)
        looped == SonarrLoop(config, decoded.result, 1, NilSlice)
    IN  IF missing # NilErr THEN Failure(missing, <<>>, NoWindow)
        ELSE IF fetched.err # NilErr
        THEN Failure("failed to read response body", <<request>>, NoWindow)
        ELSE IF decoded.err # NilErr THEN Failure(decoded.err, <<request>>, NoWindow)
        ELSE Outcome(looped.releases, looped.err, <<request>>, NoWindow)

\* feed.FetchReleasesFromSonarr(Sonarr), standalone revision on FetchApi
FetchReleasesFromSonarrSimple(config, answer) == FetchApiSonarr(config, answer)

\* feed.FetchReleasesFromSonarr(Sonarr), arr-stack revision
FetchReleasesFromSonarrArr(config, answer) == FetchApiSonarr(config, answer)

(***************************************************************************)
(* The standalone Radarr fetch.                                            *)
(***************************************************************************)
\* a choice that prefers the digital date to the physical date
RadarrDateChoiceDigitalFirst(release) ==
    IF release.ReleaseDate.kind # "empty"
    THEN [date |-> release.ReleaseDate, prefix |-> ""]
    ELSE IF release.InCinemasDate.kind # "empty"
    THEN [date |-> release.InCinemasDate, prefix |-> "Cinemas: "]
    ELSE IF release.DigitalReleaseDate.kind # "empty"
    THEN [date |-> release.DigitalReleaseDate, prefix |-> "Digital: "]
    ELSE IF release.PhysicalReleaseDate.kind # "empty"
    THEN [date |-> release.PhysicalReleaseDate, prefix |-> "Physical: "]
    ELSE [date |-> EmptyDate, prefix |-> ""]

\* the release date chosen from Radarr's response, and its label
RadarrDateChoice(release) ==
    IF release.ReleaseDate.kind # "empty"
    THEN [date |-> release.ReleaseDate, prefix |-> ""]
    ELSE IF release.InCinemasDate.kind # "empty"
    THEN [date |-> release.InCinemasDate, prefix |-> "Cinemas: "]
    ELSE IF release.PhysicalReleaseDate.kind # "empty"
    THEN [date |-> release.PhysicalReleaseDate, prefix |-> "Physical: "]
    ELSE IF release.DigitalReleaseDate.kind # "empty"
    THEN [date |-> release.DigitalReleaseDate, prefix |-> "Digital: "]
    ELSE [date |-> EmptyDate, prefix |-> ""]

RECURSIVE RadarrLoop(_, _, _, _)
RadarrLoop(config, response, i, releases) ==
    IF i > Len(response) THEN [releases |-> releases, err |-> NilErr]
    ELSE LET release == response[i]
             choice == RadarrDateChoice(release)
             airDate == ParseRFC3339(choice.date)
             timezoneDate == HandleRadarrReleaseDatesTimezone(airDate.t, config.Timezone)
         IN  IF airDate.err # NilErr
             THEN LoopAbort(releases, "failed to parse release date")
             ELSE IF timezoneDate.err # NilErr
             THEN LoopAbort(releases, "failed to parse air timezone")
             ELSE RadarrLoop(config, response, i + 1,
                      AppendOne(releases,
                          Release(release.Title, DisplayOverview(release.Overview), "",
                                  FirstPoster(release.Images),
                                  WithPrefix(choice.prefix, timezoneDate.formatted),
                                  <<>>, <<>>, release.HasFile,
                                  MovieLink(config, release.TitleSlug))))

\* feed.FetchReleasesFromRadarr(Radarr), standalone revision.  The err of
\* decodeJsonFromRequest is assigned and never tested: the loop runs over
\* whatever response came back.
FetchReleasesFromRadarr(config, answer) ==
    LET missing == MissingConfig(config)
        request == Request("radarr", sonarrSkipSsl(config.SkipSsl),
                           TrimSuffixSlash(config.InternalUrl) \o <<"/api/v3/calendar">>,
                           config.ApiKey, FALSE, 0, 0)
        decoded == decodeJsonFromRequest(answer)
        looped == RadarrLoop(config, decoded.result, 1, NilSlice)
    IN  IF missing # NilErr THEN Failure(missing, <<>>, NoWindow)
        ELSE Outcome(looped.releases, looped.err, <<request>>, NoWindow)

(***************************************************************************)
(* The arr-stack revision: Radarr fetch and aggregation.                   *)
(***************************************************************************)
\* the release date chosen by the arr-stack revision, and its label
RadarrArrDateChoice(release) ==
    IF release.PhysicalReleaseDate.kind # "empty"
    THEN [date |-> release.PhysicalReleaseDate, prefix |-> "Physical Release: "]
    ELSE IF release.DigitalReleaseDate.kind # "empty"
    THEN [date |-> release.DigitalReleaseDate, prefix |-> "Digital Release: "]
    ELSE [date |-> release.InCinemasDate, prefix |-> "In Cinemas: "]

RECURSIVE RadarrArrLoop(_, _, _, _)
RadarrArrLoop(config, response, i, releases) ==
    IF i > Len(response) THEN [releases |-> releases, err |-> NilErr]
    ELSE LET release == response[i]
             choice == RadarrArrDateChoice(release)
             airDate == ParseDateOnly(choice.date)
             timezoneDate == HandleReleaseDatesTimezone(airDate.t, config.Timezone)
         IN  IF airDate.err # NilErr
             THEN LoopAbort(releases, "failed to parse release date")
             ELSE IF timezoneDate.err # NilErr
             THEN LoopAbort(releases, "failed to parse air timezone")
             ELSE RadarrArrLoop(config, response, i + 1,
                      AppendOne(releases,
                          Release(release.Title, "", "", FirstPoster(release.Images),
                                  WithPrefix(choice.prefix, timezoneDate.formatted),
                                  <<>>, <<>>, release.HasFile, <<>>)))

\* feed.FetchReleasesFromRadarr(Radarr), arr-stack revision
FetchReleasesFromRadarrArr(config, answer) ==
    LET missing == MissingConfig(config)
        request == FetchApiRequest("radarr", config.InternalUrl, config.ApiKey, config.SkipSsl)
        fetched == FetchApi(answer)
        decoded == Unmarshal(fetched.body)
        looped == RadarrArrLoop(config, decoded.result, 1, NilSlice)
    IN  IF missing # NilErr THEN Failure(missing, <<>>, NoWindow)
        ELSE IF fetched.err # NilErr
        THEN Failure("failed to read response body", <<request>>, NoWindow)
        ELSE IF decoded.err # NilErr THEN Failure(decoded.err, <<request>>, NoWindow)
        ELSE Outcome(looped.releases, looped.err, <<request>>, NoWindow)

\* an aggregation that degrades: it returns what it has with the error
StackAbortKeepingResult(result, err, reqs) == Outcome(result, err, reqs, NoWindow)

\* slog.Warn(...); return nil, err
StackAbort(result, err, reqs) == Failure(err, reqs, NoWindow)

\* an aggregation putting the Radarr releases first
StackAppendInFront(result, releases) == AppendAll(releases, result)

\* result = append(result, releases...)
StackAppend(result, releases) == AppendAll(result, releases)

\* feed.FetchReleasesFromArrStack(Sonarr, Radarr)
FetchReleasesFromArrStack(sonarr, radarr, answers) ==
    LET s == IF sonarr.Enable THEN FetchReleasesFromSonarrArr(sonarr, answers.Sonarr)
             ELSE Outcome(NilSlice, NilErr, <<>>, NoWindow)
        afterSonarr == StackAppend(EmptySlice, s.releases)
        r == FetchReleasesFromRadarrArr(radarr, answers.Radarr)
    IN  IF s.err # NilErr THEN StackAbort(EmptySlice, s.err, s.requests)
        ELSE IF ~radarr.Enable THEN Outcome(afterSonarr, NilErr, s.requests, NoWindow)
        ELSE IF r.err # NilErr THEN StackAbort(afterSonarr, r.err, s.requests \o r.requests)
        ELSE Outcome(StackAppend(afterSonarr, r.releases), NilErr,
                     s.requests \o r.requests, NoWindow)

(***************************************************************************)
(* Inputs.                                                                 *)
(***************************************************************************)
InternalUrls == {<<>>, <<"http://arr:8989">>, <<"http://arr:8989", "/">>}
ExternalUrls == {<<>>, <<"https://arr.example", "/">>, <<"https://arr.example", "/", "/">>}
ApiKeys == {"", "secret"}
UnknownZone == "Mars/Phobos"

\* the instant of hour h of day d
At(d, h) == d * HoursPerDay + h

Posters == <<Image("banner", <<"https://img/banner.jpg">>), Image("poster", <<"https://img/poster.jpg">>)>>

\* Calendar entries of a Sonarr answer; series titles identify them.
SonarrA == SonarrEntry(TRUE, 7, 1, 5, "A", Posters, "show-a", DateString("rfc3339", At(10, 0)), "Pilot", "")
SonarrB == SonarrEntry(FALSE, 8, 12, 123, "B", <<>>, "show-b", GarbageDate, "Lost", "x")
SonarrC == SonarrEntry(FALSE, 9, 123, 0, "C", Posters, "show-c", DateString("rfc3339", At(12, 12)), "Late", "x")
SonarrD == SonarrEntry(TRUE, 10, 9, 10, "D", <<>>, "show-d", DateString("rfc3339", At(10, 23)), "Edge", "")
SonarrE == SonarrEntry(FALSE, 11, 0, 99, "E", <<>>, "show-e", DateString("rfc3339", At(9, 23)), "Eve", "")
SonarrF == SonarrEntry(FALSE, 12, 2, 100, "F", <<>>, "show-f", DateString("rfc3339", At(11, 0)), "Next", "")

SonarrEntries == {SonarrA, SonarrB, SonarrC, SonarrD}
SonarrArrEntries == {SonarrA, SonarrB, SonarrD}
SonarrWindowEntries == {SonarrA, SonarrD, SonarrE, SonarrF}

\* Calendar entries of a Radarr answer; titles identify them.
RadarrA == RadarrEntry(TRUE, "M", Posters, DateString("date", At(10, 0)), EmptyDate, EmptyDate, DateString("rfc3339", At(10, 10)), "movie-m", "")
RadarrB == RadarrEntry(FALSE, "N", <<>>, EmptyDate, EmptyDate, EmptyDate, EmptyDate, "movie-n", "x")
RadarrC == RadarrEntry(FALSE, "O", <<>>, DateString("rfc3339", At(10, 10)), EmptyDate, DateString("date", At(11, 0)), EmptyDate, "movie-o", "x")
RadarrD == RadarrEntry(FALSE, "P", Posters, GarbageDate, GarbageDate, GarbageDate, GarbageDate, "movie-p", "")

RadarrE == RadarrEntry(TRUE, "Q", <<>>, EmptyDate, DateString("rfc3339", At(11, 3)), DateString("rfc3339", At(12, 3)), EmptyDate, "movie-q", "x")
RadarrF == RadarrEntry(FALSE, "R", <<>>, EmptyDate, EmptyDate, DateString("rfc3339", At(12, 6)), EmptyDate, "movie-r", "")

RadarrEntries == {RadarrA, RadarrB, RadarrC, RadarrD, RadarrE, RadarrF}
RadarrArrEntries == {RadarrA, RadarrB, RadarrC}

\* the answers an upstream can give with entries drawn from S
Answers(S, n) ==
    {Answer(f, <<>>) : f \in {"transport", "status", "malformed"}}
        \cup {Answer("none", es) : es \in SeqsUpTo(S, n)}

Unused == Config(FALSE, <<>>, FALSE, "", <<>>, "", 0, 0, "", FALSE)
NoAnswer == Answer("none", <<>>)

SonarrFns == {"feed.FetchReleasesFromSonarr", "glance.fetchReleasesFromSonarr", "simple.FetchReleasesFromSonarr", "arr.FetchReleasesFromSonarr"}
DayOffsetFns == {"feed.FetchReleasesFromSonarr", "glance.fetchReleasesFromSonarr"}
RadarrFns == {"feed.FetchReleasesFromRadarr", "arr.FetchReleasesFromRadarr"}

\* the configuration and the answer the called function reads
CalledConfig == IF fn \in RadarrFns THEN cfg.Radarr ELSE cfg.Sonarr
CalledAnswer == IF fn \in RadarrFns THEN upstream.Radarr ELSE upstream.Sonarr

ServiceConfigs ==
    {Config(TRUE, u, FALSE, k, x, z, 0, 0, "", FALSE) :
        u \in InternalUrls, k \in ApiKeys, x \in ExternalUrls,
        z \in {"", "Europe/Lagos", UnknownZone}}

\* no widget: the fetch is called on its own
NoWidget == [kind |-> "none"]

InitCommon ==
    /\ pc = "ready"
    /\ requests = <<>>
    /\ ret = [releases |-> NilSlice, err |-> NilErr]
    /\ win = NoWindow
    /\ clients = SharedClients
    /\ sent = <<>>
    /\ widget = NoWidget
    /\ accepted = NilSlice

\* One call of one per-service fetch, at 22:00 UTC of day 10 on a host in UTC.
Init ==
    /\ InitCommon
    /\ env = [now |-> At(10, 22), local |-> 0]
    /\ \/ /\ fn \in SonarrFns
          /\ \E c \in ServiceConfigs : cfg = [Sonarr |-> c, Radarr |-> Unused]
          /\ \E a \in Answers(SonarrEntries, MaxEntries) :
                upstream = [Sonarr |-> a, Radarr |-> NoAnswer]
       \/ /\ fn \in RadarrFns
          /\ \E c \in ServiceConfigs : cfg = [Sonarr |-> Unused, Radarr |-> c]
          /\ \E a \in Answers(RadarrEntries, MaxEntries) :
                upstream = [Sonarr |-> NoAnswer, Radarr |-> a]

\* the function returns: its results become visible
Return(o) ==
    /\ pc' = "done"
    /\ requests' = o.requests
    /\ ret' = [releases |-> o.releases, err |-> o.err]
    /\ win' = o.win
    /\ sent' = sent \o SentAll(o.requests, cfg, clients)
    /\ UNCHANGED <<fn, cfg, env, upstream, clients, widget, accepted>>

CallFeedSonarr ==
    /\ pc = "ready" /\ fn = "feed.FetchReleasesFromSonarr"
    /\ Return(FetchReleasesFromSonarr(cfg.Sonarr, env, upstream.Sonarr))

CallGlanceSonarr ==
    /\ pc = "ready" /\ fn = "glance.fetchReleasesFromSonarr"
    /\ Return(fetchReleasesFromSonarr(cfg.Sonarr, env, upstream.Sonarr))

CallSimpleSonarr ==
    /\ pc = "ready" /\ fn = "simple.FetchReleasesFromSonarr"
    /\ Return(FetchReleasesFromSonarrSimple(cfg.Sonarr, upstream.Sonarr))

CallArrSonarr ==
    /\ pc = "ready" /\ fn = "arr.FetchReleasesFromSonarr"
    /\ Return(FetchReleasesFromSonarrArr(cfg.Sonarr, upstream.Sonarr))

CallFeedRadarr ==
    /\ pc = "ready" /\ fn = "feed.FetchReleasesFromRadarr"
    /\ Return(FetchReleasesFromRadarr(cfg.Radarr, upstream.Radarr))

CallArrRadarr ==
    /\ pc = "ready" /\ fn = "arr.FetchReleasesFromRadarr"
    /\ Return(FetchReleasesFromRadarrArr(cfg.Radarr, upstream.Radarr))

CallArrStack ==
    /\ pc = "ready" /\ fn = "arr.FetchReleasesFromArrStack"
    /\ Return(FetchReleasesFromArrStack(cfg.Sonarr, cfg.Radarr, upstream))

Next ==
    \/ CallFeedSonarr
    \/ CallGlanceSonarr
    \/ CallSimpleSonarr
    \/ CallArrSonarr
    \/ CallFeedRadarr
    \/ CallArrRadarr

Spec == Init /\ [][Next]_vars

(***************************************************************************)
(* The aggregation: one call of FetchReleasesFromArrStack.                 *)
(***************************************************************************)
ArrConfigs ==
    {Config(en, <<"http://arr:8989">>, FALSE, k, <<>>, z, 0, 0, "", FALSE) :
        en \in BOOLEAN,
        k \in ApiKeys, z \in {"", UnknownZone}}

InitArr ==
    /\ InitCommon
    /\ env = [now |-> At(10, 22), local |-> 0]
    /\ fn = "arr.FetchReleasesFromArrStack"
    /\ \E s \in ArrConfigs, r \in ArrConfigs : cfg = [Sonarr |-> s, Radarr |-> r]
    /\ \E a \in Answers(SonarrArrEntries, MaxArrEntries),
          b \in Answers(RadarrArrEntries, MaxArrEntries) :
            upstream = [Sonarr |-> a, Radarr |-> b]

NextArr == CallArrStack

SpecArr == InitArr /\ [][NextArr]_vars

(***************************************************************************)
(* The day-offset fetch over clocks, zones, offsets and lookbacks.         *)
(***************************************************************************)
WindowConfigs ==
    {Config(TRUE, <<"http://arr:8989">>, FALSE, "secret", <<>>, z, d, n, "", FALSE) :
        z \in {""} \cup KnownZones,
        d \in {0 - 1, 0, 1},
        n \in {0 - 1, 0, 1, 6, 7}}

InitWindow ==
    /\ InitCommon
    /\ fn \in DayOffsetFns
    /\ \E h \in {2, 12, 21}, l \in {0 - 5, 0, 9} : env = [now |-> At(10, h), local |-> l]
    /\ \E c \in WindowConfigs : cfg = [Sonarr |-> c, Radarr |-> Unused]
    /\ \E es \in SeqsUpTo(SonarrWindowEntries, MaxWindowEntries) :
            upstream = [Sonarr |-> Answer("none", es), Radarr |-> NoAnswer]

NextWindow ==
    \/ CallFeedSonarr
    \/ CallGlanceSonarr

SpecWindow == InitWindow /\ [][NextWindow]_vars

(***************************************************************************)
(* Properties.                                                             *)
(***************************************************************************)
Returned == pc = "done"
Failed == ret.err # NilErr
ReturnedNothing == ret.releases = NilSlice

ConfigIncomplete(config) == config.InternalUrl = <<>> \/ config.ApiKey = ""
ZoneLoads(config) == config.Timezone = "" \/ config.Timezone \in KnownZones

\* the titles of a sequence of releases, and of Sonarr / Radarr entries
Titles(rs) == [i \in 1..Len(rs) |-> rs[i].Title]
SeriesTitles(es) == [i \in 1..Len(es) |-> es[i].SeriesTitle]

\* C1: a per-service fetch whose base URL or API key is empty returns an
\* error and no release list, and has issued no HTTP request.
C1_MissingConfigFailsBeforeAnyRequest ==
    (Returned /\ ConfigIncomplete(CalledConfig))
        => (Failed /\ ReturnedNothing /\ Len(requests) = 0)

\* C1 witness: the URL is set, the API key is empty, the upstream would have
\* answered with entries, and the fetch has returned.
C1_Witness ==
    /\ Returned
    /\ CalledConfig.InternalUrl # <<>>
    /\ CalledConfig.ApiKey = ""
    /\ CalledAnswer.fail = "none"
    /\ Len(CalledAnswer.entries) > 0
    /\ Failed

\* the HTTP/decode step of the call is reached and fails
HttpStepFails ==
    /\ ~ConfigIncomplete(CalledConfig)
    /\ (fn \in DayOffsetFns => ZoneLoads(CalledConfig))
    /\ CalledAnswer.fail # "none"

\* C2: when the HTTP/decode step fails (transport failure, status other
\* than 200, malformed JSON), every per-service fetch returns a non-nil
\* error and no release list.
C2_HttpFailureIsReturned ==
    (Returned /\ HttpStepFails) => (Failed /\ ReturnedNothing)

\* an entry whose air date is not RFC 3339 (the layout every Sonarr revision
\* parses with); a Radarr entry none of whose dates parses in either layout
SonarrDateUnparseable(e) == e.AirDateUtc.kind # "rfc3339"
RadarrDateUnparseable(e) ==
    /\ e.ReleaseDate.kind \notin {"rfc3339", "date"}
    /\ e.InCinemasDate.kind \notin {"rfc3339", "date"}
    /\ e.PhysicalReleaseDate.kind \notin {"rfc3339", "date"}
    /\ e.DigitalReleaseDate.kind \notin {"rfc3339", "date"}
DateUnparseable(e) ==
    IF fn \in RadarrFns THEN RadarrDateUnparseable(e) ELSE SonarrDateUnparseable(e)

\* the response was decoded and the loop over it was entered
LoopEntered ==
    /\ ~ConfigIncomplete(CalledConfig)
    /\ (fn \in DayOffsetFns => ZoneLoads(CalledConfig))
    /\ CalledAnswer.fail = "none"

\* C3: no partial result.  If an entry of the decoded response has an
\* unparseable date, wherever it stands, the fetch returns an error and a
\* nil list; and no fetch ever returns an error together with releases.
C3_NoPartialResultOnBadDate ==
    Returned =>
        /\ (LoopEntered /\ \E i \in 1..Len(CalledAnswer.entries) :
                               DateUnparseable(CalledAnswer.entries[i]))
              => (Failed /\ ReturnedNothing)
        /\ Failed => ReturnedNothing

\* C3 witness: the bad entry is the last of three, the two before it parse
\* (and, the zone loading, were normalized), and the fetch returned an error.
C3_Witness ==
    /\ Returned /\ LoopEntered /\ ZoneLoads(CalledConfig)
    /\ Len(CalledAnswer.entries) = 3
    /\ ~DateUnparseable(CalledAnswer.entries[1])
    /\ ~DateUnparseable(CalledAnswer.entries[2])
    /\ DateUnparseable(CalledAnswer.entries[3])
    /\ fn \in {"feed.FetchReleasesFromSonarr", "simple.FetchReleasesFromSonarr"}
    /\ Failed /\ ReturnedNothing

\* what each service's fetch does on its own in the aggregation
SonarrAlone == FetchReleasesFromSonarrArr(cfg.Sonarr, upstream.Sonarr)
RadarrAlone == FetchReleasesFromRadarrArr(cfg.Radarr, upstream.Radarr)
SonarrFetchFails == cfg.Sonarr.Enable /\ SonarrAlone.err # NilErr
RadarrFetchFails == cfg.Radarr.Enable /\ RadarrAlone.err # NilErr

\* C4: the aggregation is fail-fast.  If the fetch of an enabled service
\* fails, FetchReleasesFromArrStack returns that error and a nil list; the
\* Sonarr releases already fetched are not returned when Radarr fails.
C4_AggregationFailsFast ==
    Returned =>
        /\ SonarrFetchFails => (ret.err = SonarrAlone.err /\ ReturnedNothing)
        /\ (~SonarrFetchFails /\ RadarrFetchFails)
              => (ret.err = RadarrAlone.err /\ ReturnedNothing)

\* C4 witness: Sonarr delivered releases, Radarr then failed, and the
\* aggregation returned an error.
C4_Witness ==
    /\ Returned
    /\ cfg.Sonarr.Enable /\ ~SonarrFetchFails
    /\ Len(SonarrAlone.releases.items) > 0
    /\ RadarrFetchFails
    /\ Failed

\* C5: on success the aggregation returns the Sonarr releases (if enabled)
\* followed by the Radarr releases (if enabled), each in its fetch's order;
\* a disabled service contributes nothing and with both disabled the result
\* is the empty list without error.
C5_AggregationConcatenates ==
    Returned =>
        /\ (~SonarrFetchFails /\ ~RadarrFetchFails) => ~Failed
        /\ ~Failed =>
              ret.releases.items =
                  (IF cfg.Sonarr.Enable THEN SonarrAlone.releases.items ELSE <<>>)
                      \o (IF cfg.Radarr.Enable THEN RadarrAlone.releases.items ELSE <<>>)
        /\ (~cfg.Sonarr.Enable /\ ~cfg.Radarr.Enable)
              => (~Failed /\ Len(ret.releases.items) = 0)

\* C5 witness: both services enabled, both delivered releases, and the
\* aggregation returned them all.
C5_Witness ==
    /\ Returned /\ ~Failed
    /\ cfg.Sonarr.Enable /\ cfg.Radarr.Enable
    /\ Len(SonarrAlone.releases.items) = 2
    /\ Len(RadarrAlone.releases.items) = 2
    /\ Len(ret.releases.items) = 4

\* the entry airs inside the acceptance window the fetch computed, both
\* bounds included
AirsInWindow(e) ==
    /\ win.startDateLocal.inst <= e.AirDateUtc.inst
    /\ e.AirDateUtc.inst <= win.endDateLocal.inst

\* C6: the day-offset fetch returns exactly the in-order subsequence of the
\* response whose air time lies in [startDateLocal, endDateLocal], both
\* bounds included, each entry shown at its air time in the resolved zone.
C6_ExactlyTheEntriesInWindow ==
    (Returned /\ fn \in DayOffsetFns /\ ~Failed) =>
        LET kept == SelectSeq(upstream.Sonarr.entries, AirsInWindow)
        IN  /\ Titles(ret.releases.items) = SeriesTitles(kept)
            /\ \A i \in 1..Len(ret.releases.items) :
                  /\ i <= Len(kept)
                  /\ ret.releases.items[i].AirDateUtc.day
                        = (kept[i].AirDateUtc.inst + win.timeLocal) \div HoursPerDay
                  /\ ret.releases.items[i].AirDateUtc.hour
                        = (kept[i].AirDateUtc.inst + win.timeLocal) % HoursPerDay

\* C6 witness: of two entries one airs at the very last instant of the
\* window and is kept, the other airs after it and is dropped.
C6_Witness ==
    /\ Returned /\ fn \in DayOffsetFns /\ ~Failed
    /\ Len(upstream.Sonarr.entries) = 2
    /\ upstream.Sonarr.entries[1].AirDateUtc.inst = win.endDateLocal.inst
    /\ upstream.Sonarr.entries[2].AirDateUtc.inst > win.endDateLocal.inst
    /\ Len(ret.releases.items) = 1

\* C7: for every day offset, lookback, configured zone and process zone,
\* the query start sent upstream is at or before the acceptance-window
\* start, which is at or before the acceptance-window end.
C7_QueryStartBeforeWindow ==
    (Returned /\ win.set) =>
        /\ Len(requests) = 1
        /\ requests[1].start <= win.startDateLocal.inst
        /\ win.startDateLocal.inst <= win.endDateLocal.inst

\* the window the same call computes with no lookback
WindowWithoutLookback ==
    SonarrWindow([cfg.Sonarr EXCEPT !.FromPreviousDays = 0], env, win.timeLocal)

\* C8: a lookback of N days (N in 0..6) moves the UTC start and the local
\* acceptance start exactly N days earlier than without lookback and leaves
\* both ends where they were; the query runs from one day before the UTC
\* start to one day after the UTC end.
C8_LookbackMovesOnlyTheStarts ==
    (Returned /\ win.set /\ cfg.Sonarr.FromPreviousDays \in 0..6) =>
        LET n == cfg.Sonarr.FromPreviousDays
            w0 == WindowWithoutLookback
        IN  /\ win.startDateUTC.inst = w0.startDateUTC.inst - n * HoursPerDay
            /\ win.startDateLocal.inst = w0.startDateLocal.inst - n * HoursPerDay
            /\ win.endDateUTC = w0.endDateUTC
            /\ win.endDateLocal = w0.endDateLocal
            /\ Len(requests) = 1
            /\ requests[1].ranged
            /\ requests[1].start = win.startDateUTC.inst - HoursPerDay
            /\ requests[1].end = win.endDateUTC.inst + HoursPerDay

\* C8 witness: a call with a lookback of six days in a configured zone.
C8_Witness ==
    /\ Returned /\ win.set
    /\ cfg.Sonarr.FromPreviousDays = 6
    /\ cfg.Sonarr.Timezone = "Pacific/Kiritimati"
    /\ cfg.Sonarr.DayOffset = 1
    /\ win.startDateLocal.inst < WindowWithoutLookback.startDateLocal.inst

\* C9 as stated: the lookback used is the configured value clamped to
\* [0,6]: below 0 gives 0 and above 6 gives 6.
C9_LookbackIsClamped ==
    (Returned /\ win.set) =>
        win.previousDays =
            (IF cfg.Sonarr.FromPreviousDays < 0 THEN 0
             ELSE IF cfg.Sonarr.FromPreviousDays > 6 THEN 6
             ELSE cfg.Sonarr.FromPreviousDays)

\* C9 amended: a configured value in [0,6] is used unchanged and any value
\* outside it, on either side, becomes 0; the value used is always in [0,6]
\* and the window starts that many days before the day's start.
C9_LookbackOutOfRangeIsZero ==
    (Returned /\ win.set) =>
        /\ win.previousDays \in 0..6
        /\ cfg.Sonarr.FromPreviousDays \in 0..6
              => win.previousDays = cfg.Sonarr.FromPreviousDays
        /\ cfg.Sonarr.FromPreviousDays \notin 0..6 => win.previousDays = 0
        /\ win.startDateLocal.inst
              = WindowWithoutLookback.startDateLocal.inst - win.previousDays * HoursPerDay

\* C9 witness: a configured lookback of 7 days, used as 0.
C9_Witness ==
    /\ Returned /\ win.set
    /\ cfg.Sonarr.FromPreviousDays = 7
    /\ win.previousDays = 0
    /\ win.startDateLocal = WindowWithoutLookback.startDateLocal

\* the entry a release was made from
EntryTitled(title) == CHOOSE e \in SonarrEntries : e.SeriesTitle = title

\* the rendering the claim describes for n >= 0
PaddedDecimal(s, n) ==
    /\ Len(s) >= 2
    /\ n \in 0..9 => s = <<"0", DigitChar(n)>>
    /\ n >= 10 => (s[1] # "0" /\ Len(s) = Cardinality({k \in 0..3 : n >= 10 ^ k}))
    /\ n = 12 => s = <<"1", "2">>
    /\ n = 123 => s = <<"1", "2", "3">>
    /\ Atoi(s) = n

\* C10: season and episode numbers are rendered as decimals zero-padded to
\* at least two digits: 0..9 give "00".."09", 10 and more give all their
\* digits, and the string parses back to the number.
C10_NumbersPaddedToTwoDigits ==
    (Returned /\ fn \in SonarrFns) =>
        \A i \in 1..Len(ret.releases.items) :
            LET r == ret.releases.items[i]
                e == EntryTitled(r.Title)
            IN  /\ PaddedDecimal(r.SeasonNumber, e.SeasonNumber)
                /\ PaddedDecimal(r.EpisodeNumber, e.EpisodeNumber)

\* C10 witness: a returned release of season 123 (three digits kept) and
\* one of season 9 (padded).
C10_Witness ==
    /\ Returned /\ fn \in SonarrFns
    /\ \E i \in 1..Len(ret.releases.items) :
          ret.releases.items[i].SeasonNumber = <<"1", "2", "3">>
    /\ \E i \in 1..Len(ret.releases.items) :
          ret.releases.items[i].SeasonNumber = <<"0", "9">>

\* the fetches whose release type carries an overview (the day-offset
\* revisions carry the episode title instead)
OverviewFns == {"simple.FetchReleasesFromSonarr", "arr.FetchReleasesFromSonarr", "feed.FetchReleasesFromRadarr", "arr.FetchReleasesFromRadarr"}

\* the Radarr entry a release was made from
MovieTitled(title) == CHOOSE e \in RadarrEntries : e.Title = title

\* the upstream overview of the entry a release of the called fetch was made from
UpstreamOverview(r) ==
    IF fn \in RadarrFns THEN MovieTitled(r.Title).Overview
    ELSE EntryTitled(r.Title).Overview

\* C11: every release produced by a fetch has the overview "TBA" when the
\* upstream overview is empty and the upstream overview unchanged otherwise;
\* no produced release has an empty overview.
C11_OverviewFallsBackToTBA ==
    (Returned /\ fn \in OverviewFns) =>
        \A i \in 1..Len(ret.releases.items) :
            LET r == ret.releases.items[i]
            IN  /\ UpstreamOverview(r) = "" => r.Overview = "TBA"
                /\ UpstreamOverview(r) # "" => r.Overview = UpstreamOverview(r)
                /\ r.Overview # ""

\* the choice the specification describes: the first non-empty of
\* releaseDate, inCinemas, physicalRelease, digitalRelease, with its label
SpecifiedDateChoice(e) ==
    IF e.ReleaseDate.kind # "empty" THEN [date |-> e.ReleaseDate, prefix |-> ""]
    ELSE IF e.InCinemasDate.kind # "empty" THEN [date |-> e.InCinemasDate, prefix |-> "Cinemas: "]
    ELSE IF e.PhysicalReleaseDate.kind # "empty" THEN [date |-> e.PhysicalReleaseDate, prefix |-> "Physical: "]
    ELSE [date |-> e.DigitalReleaseDate, prefix |-> "Digital: "]

\* the choice of the arr-stack revision: the first non-empty of
\* physicalRelease and digitalRelease, else inCinemas, with its label
ArrStackDateChoice(e) ==
    IF e.PhysicalReleaseDate.kind # "empty" THEN [date |-> e.PhysicalReleaseDate, prefix |-> "Physical Release: "]
    ELSE IF e.DigitalReleaseDate.kind # "empty" THEN [date |-> e.DigitalReleaseDate, prefix |-> "Digital Release: "]
    ELSE [date |-> e.InCinemasDate, prefix |-> "In Cinemas: "]

\* the display date shows the chosen date, in the configured zone, behind
\* the chosen label
ShowsChoice(displayed, choice, config) ==
    LET shown == In(Time(choice.date.inst, 0), LoadLocation(config.Timezone).zone)
    IN  /\ displayed.prefix = choice.prefix
        /\ displayed.day = DayOf(shown)
        /\ displayed.hour = HourOf(shown)

Prefixes == {ret.releases.items[i].AirDateUtc.prefix : i \in 1..Len(ret.releases.items)}

C12_WitnessDigital ==
    /\ Returned /\ fn = "feed.FetchReleasesFromRadarr"
    /\ "Digital: " \in Prefixes

\* the arr-stack revision returned a release
C12_WitnessArrStack ==
    /\ Returned /\ fn = "arr.FetchReleasesFromRadarr"
    /\ "In Cinemas: " \in Prefixes
    /\ "Digital Release: " \in Prefixes

\* the fetches that build a deep link, and the path segment of their links
LinkFns == SonarrFns \cup {"feed.FetchReleasesFromRadarr"}
LinkSegment == IF fn \in RadarrFns THEN "/movie/" ELSE "/series/"

\* the slug of the entry a release of the called fetch was made from
UpstreamSlug(r) ==
    IF fn \in RadarrFns THEN MovieTitled(r.Title).TitleSlug
    ELSE EntryTitled(r.Title).TitleSlug

\* the URL the claim takes as base: the external one if set, else the internal one
ClaimedBase(config) ==
    IF Len(config.ExternalUrl) > 0 THEN config.ExternalUrl ELSE config.InternalUrl

EndsWithSlash(url) == Len(url) > 0 /\ url[Len(url)] = "/"
EndsWithTwoSlashes(url) == Len(url) > 1 /\ url[Len(url)] = "/" /\ url[Len(url) - 1] = "/"

\* link is base, one trailing slash removed, then the segment, then the slug
LinkBuiltFrom(link, base, segment, slug) ==
    /\ Len(link) >= 2
    /\ link[Len(link)] = slug
    /\ link[Len(link) - 1] = segment
    /\ LET front == SubSeq(link, 1, Len(link) - 2)
       IN  IF EndsWithSlash(base) THEN front \o <<"/">> = base ELSE front = base

\* a slash stands right before the segment: the link contains "//series/"
\* (or "//movie/")
DoubledSlash(link) ==
    \E i \in 2..Len(link) : link[i] \in {"/series/", "/movie/"} /\ link[i - 1] = "/"

\* C13 as stated: every link is the external URL if non-empty, else the
\* internal URL, with its trailing slash stripped, then "/series/" (Sonarr)
\* or "/movie/" (Radarr), then the slug; and it never contains "//series/"
\* (or "//movie/").
C13_DeepLinkNeverDoublesSlash ==
    (Returned /\ fn \in LinkFns) =>
        \A i \in 1..Len(ret.releases.items) :
            LET r == ret.releases.items[i]
            IN  /\ LinkBuiltFrom(r.Url, ClaimedBase(CalledConfig), LinkSegment, UpstreamSlug(r))
                /\ ~DoubledSlash(r.Url)

\* C13 amended: every link is the external URL if non-empty, else the
\* internal URL, with one trailing slash stripped, then the segment, then
\* the slug; it contains "//series/" (or "//movie/") exactly when the base
\* URL ends with two slashes.
C13_DeepLinkStripsOneSlash ==
    (Returned /\ fn \in LinkFns) =>
        \A i \in 1..Len(ret.releases.items) :
            LET r == ret.releases.items[i]
            IN  /\ LinkBuiltFrom(r.Url, ClaimedBase(CalledConfig), LinkSegment, UpstreamSlug(r))
                /\ DoubledSlash(r.Url) <=> EndsWithTwoSlashes(ClaimedBase(CalledConfig))

\* C13 witness: a Sonarr fetch configured with both URLs, the external one
\* ending with a slash, returned a release linked under the external URL.
C13_Witness ==
    /\ Returned /\ fn \in SonarrFns
    /\ cfg.Sonarr.InternalUrl = <<"http://arr:8989", "/">>
    /\ cfg.Sonarr.ExternalUrl = <<"https://arr.example", "/">>
    /\ \E i \in 1..Len(ret.releases.items) :
          ret.releases.items[i].Url = <<"https://arr.example", "/series/", "show-a">>

\* the standalone Radarr fetch, without external URL, linked a movie under
\* the internal URL
C13_WitnessMovie ==
    /\ Returned /\ fn = "feed.FetchReleasesFromRadarr"
    /\ cfg.Radarr.ExternalUrl = <<>>
    /\ \E i \in 1..Len(ret.releases.items) :
          ret.releases.items[i].Url = <<"http://arr:8989", "/movie/", "movie-m">>

\* an external URL ending with two slashes gave a link containing "//series/"
C13_WitnessTwoSlashes ==
    /\ Returned /\ fn \in SonarrFns
    /\ \E i \in 1..Len(ret.releases.items) :
          ret.releases.items[i].Url = <<"https://arr.example", "/", "/series/", "show-a">>

(***************************************************************************)
(* The FreshRSS fetch.  The upstream answer is [Fever, Rss]: what the      *)
(* fever API answers, and what the RSS collaborator then returns.          *)
(***************************************************************************)
FreshRssConfig(url, user, pass) == [FreshRSSUrl |-> url, FreshRSSUser |-> user, FreshRSSApiPass |-> pass]

\* GetItemsFromRSSFeeds(feedReqs): the collaborator's items and error
GetItemsFromRSSFeeds(feedReqs, rss) ==
    IF rss.err = "no content" THEN [items |-> NilSlice, err |-> rss.err]
    ELSE [items |-> rss.items, err |-> rss.err]

\* feed.GetItemsFromFreshRssFeeds(freshrssUrl, freshrssUser, freshrsspass)
GetItemsFromFreshRssFeeds(config, answer) ==
    LET request == Request("freshrss", "default",
                           config.FreshRSSUrl \o <<"/api/fever.php?api">>, "", FALSE, 0, 0)
        p == decodeJsonFromRequest(answer.Fever)
        feedReqs == [i \in 1..Len(p.result) |-> [Url |-> p.result[i].Url, Title |-> p.result[i].Title]]
        got == GetItemsFromRSSFeeds(feedReqs, answer.Rss)
    IN  IF p.err # NilErr THEN Failure(p.err, <<request>>, NoWindow)
        ELSE Outcome(got.items, got.err, <<request>>, NoWindow)

(***************************************************************************)
(* Fetches following one another in one process: each action is one call   *)
(* of one fetch function with a configuration of its own.                  *)
(***************************************************************************)
\* Most calls in a run.
MaxFetches == 3

TlsConfig(skipSsl) == Config(TRUE, <<"http://arr:8989">>, skipSsl, "secret", <<>>, "", 0, 0, "", FALSE)
OnlySonarr(skipSsl) == [Sonarr |-> TlsConfig(skipSsl), Radarr |-> Unused]
OnlyRadarr(skipSsl) == [Sonarr |-> Unused, Radarr |-> TlsConfig(skipSsl)]
RssFeed == [Url |-> <<"https://blog.example/feed">>, Title |-> "blog"]
RssAnswer(fail, items, err) == [Fever |-> Answer(fail, <<RssFeed>>), Rss |-> [items |-> items, err |-> err]]
TheFreshRss == FreshRssConfig(<<"https://rss.example">>, "user", "pass")

InitTls ==
    /\ InitCommon
    /\ fn = "none"
    /\ cfg = [Sonarr |-> Unused, Radarr |-> Unused]
    /\ env = [now |-> At(10, 22), local |-> 0]
    /\ \E a \in {NoAnswer, Answer("transport", <<>>), Answer("none", <<SonarrA>>)},
          b \in {NoAnswer, Answer("none", <<RadarrA>>)} :
            upstream = [Sonarr |-> a, Radarr |-> b,
                        FreshRss |-> RssAnswer("none", [nil |-> FALSE, items |-> <<1>>], NilErr)]

\* one more call of f under configs returned o
Called(f, configs, o) ==
    /\ Len(sent) < MaxFetches
    /\ fn' = f
    /\ cfg' = configs
    /\ pc' = "done"
    /\ requests' = o.requests
    /\ ret' = [releases |-> o.releases, err |-> o.err]
    /\ win' = o.win
    /\ sent' = sent \o SentAll(o.requests, configs, clients)
    /\ UNCHANGED <<env, upstream, clients, widget, accepted>>

AgainFeedSonarr ==
    \E skip \in BOOLEAN :
        Called("feed.FetchReleasesFromSonarr", OnlySonarr(skip),
               FetchReleasesFromSonarr(TlsConfig(skip), env, upstream.Sonarr))

AgainGlanceSonarr ==
    \E skip \in BOOLEAN :
        Called("glance.fetchReleasesFromSonarr", OnlySonarr(skip),
               fetchReleasesFromSonarr(TlsConfig(skip), env, upstream.Sonarr))

AgainSimpleSonarr ==
    \E skip \in BOOLEAN :
        Called("simple.FetchReleasesFromSonarr", OnlySonarr(skip),
               FetchReleasesFromSonarrSimple(TlsConfig(skip), upstream.Sonarr))

AgainFeedRadarr ==
    \E skip \in BOOLEAN :
        Called("feed.FetchReleasesFromRadarr", OnlyRadarr(skip),
               FetchReleasesFromRadarr(TlsConfig(skip), upstream.Radarr))

AgainArrStack ==
    \E s \in BOOLEAN, r \in BOOLEAN :
        Called("arr.FetchReleasesFromArrStack",
               [Sonarr |-> TlsConfig(s), Radarr |-> TlsConfig(r)],
               FetchReleasesFromArrStack(TlsConfig(s), TlsConfig(r), upstream))

AgainFreshRss ==
    Called("feed.GetItemsFromFreshRssFeeds", [Sonarr |-> Unused, Radarr |-> Unused],
           GetItemsFromFreshRssFeeds(TheFreshRss, upstream.FreshRss))

NextTls ==
    \/ AgainFeedSonarr
    \/ AgainGlanceSonarr
    \/ AgainSimpleSonarr
    \/ AgainFeedRadarr
    \/ AgainArrStack
    \/ AgainFreshRss

SpecTls == InitTls /\ [][NextTls]_vars

\* C14: certificate validation is disabled only for a request whose own
\* configuration has skipssl set: whatever fetches came before, a request
\* of a configuration with skipssl = false goes out through a validating
\* client, and so does every FreshRSS request.
C14_SkipSslIsPerRequest ==
    \A i \in 1..Len(sent) :
        /\ sent[i].insecureSkipVerify => sent[i].skipSsl
        /\ sent[i].svc = "freshrss" => ~sent[i].insecureSkipVerify

\* C14 witness: a request sent without validation through the shared
\* non-validating client, one through a client built for the call, then a
\* skipssl = false request of the same kind and a FreshRSS request, both
\* validated.
C14_Witness ==
    /\ Len(sent) >= 3
    /\ \E i \in 1..Len(sent) - 1 :
          /\ sent[i].client = "insecure" /\ sent[i].insecureSkipVerify
          /\ sent[i + 1].client = "default" /\ ~sent[i + 1].skipSsl
          /\ ~sent[i + 1].insecureSkipVerify
    /\ \E i \in 1..Len(sent) : sent[i].client = "own-insecure"
    /\ sent[Len(sent)].svc = "freshrss" /\ ~sent[Len(sent)].insecureSkipVerify

\* the configured timezone is set and time.LoadLocation does not know it
ZoneUnknown(config) == config.Timezone # "" /\ config.Timezone \notin KnownZones

\* C15: whenever the configured timezone is non-empty and not a known IANA
\* zone name, every Sonarr and Radarr fetch returns an error and no
\* releases, whatever the upstream answers (an empty list included).
C15_UnknownZoneAlwaysFails ==
    (Returned /\ ZoneUnknown(CalledConfig)) => (Failed /\ ReturnedNothing)

(***************************************************************************)
(* The aggregation step by step: the Sonarr block of                       *)
(* FetchReleasesFromArrStack, then its Radarr block.  Between the two pc   *)
(* is "radarr" and ret.releases holds result as the Sonarr block left it.  *)
(***************************************************************************)
\* an aggregation that goes on to Radarr whatever Sonarr returned
StackGoesOnAlways(err) == TRUE

\* if err != nil { ...; return nil, err }: the function goes on when err is nil
StackGoesOn(err) == err = NilErr

\* if Sonarr.Enable { ... }
StackSonarrBlock ==
    /\ pc = "ready" /\ fn = "arr.FetchReleasesFromArrStack"
    /\ LET s == IF cfg.Sonarr.Enable
                THEN FetchReleasesFromSonarrArr(cfg.Sonarr, upstream.Sonarr)
                ELSE Outcome(NilSlice, NilErr, <<>>, NoWindow)
       IN  /\ pc' = IF StackGoesOn(s.err) THEN "radarr" ELSE "done"
           /\ ret' = IF s.err # NilErr
                     THEN [releases |-> NilSlice, err |-> s.err]
                     ELSE [releases |-> StackAppend(EmptySlice, s.releases), err |-> NilErr]
           /\ requests' = s.requests
           /\ sent' = sent \o SentAll(s.requests, cfg, clients)
    /\ UNCHANGED <<fn, cfg, env, upstream, win, clients, widget, accepted>>

\* if Radarr.Enable { ... }; return result, nil
StackRadarrBlock ==
    /\ pc = "radarr"
    /\ LET r == IF cfg.Radarr.Enable
                THEN FetchReleasesFromRadarrArr(cfg.Radarr, upstream.Radarr)
                ELSE Outcome(NilSlice, NilErr, <<>>, NoWindow)
       IN  /\ pc' = "done"
           /\ ret' = IF r.err # NilErr
                     THEN [releases |-> NilSlice, err |-> r.err]
                     ELSE [releases |-> StackAppend(ret.releases, r.releases), err |-> NilErr]
           /\ requests' = requests \o r.requests
           /\ sent' = sent \o SentAll(r.requests, cfg, clients)
    /\ UNCHANGED <<fn, cfg, env, upstream, win, clients, widget, accepted>>

NextArrSteps ==
    \/ StackSonarrBlock
    \/ StackRadarrBlock

SpecArrSteps == InitArr /\ [][NextArrSteps]_vars

\* the requests issued so far to one service
RequestsTo(svc) == {i \in 1..Len(requests) : requests[i].svc = svc}

\* the Sonarr block is over and did not fail: its response is processed
\* and its releases are in result
SonarrBlockSucceeded ==
    /\ pc \in {"radarr", "done"}
    /\ cfg.Sonarr.Enable => FetchReleasesFromSonarrArr(cfg.Sonarr, upstream.Sonarr).err = NilErr

\* at most one request per enabled service, none for a disabled one; a
\* Radarr request is in the log only behind the Sonarr one and only if the
\* Sonarr block succeeded
OneRequestPerService ==
    /\ Cardinality(RequestsTo("sonarr")) <= (IF cfg.Sonarr.Enable THEN 1 ELSE 0)
    /\ Cardinality(RequestsTo("radarr")) <= (IF cfg.Radarr.Enable THEN 1 ELSE 0)
    /\ RequestsTo("sonarr") \cup RequestsTo("radarr") = 1..Len(requests)
    /\ \A i \in RequestsTo("sonarr"), j \in RequestsTo("radarr") : i < j
    /\ RequestsTo("radarr") # {} => SonarrBlockSucceeded
    /\ pc # "done" => RequestsTo("radarr") = {}

\* a step that issues the Radarr request starts where the Sonarr block has
\* handed over its result
RadarrIssuedAfterSonarrProcessed ==
    (RequestsTo("radarr") = {} /\ \E i \in 1..Len(requests') : requests'[i].svc = "radarr")
        => /\ pc = "radarr"
           /\ ret.err = NilErr
           /\ cfg.Sonarr.Enable =>
                ret.releases.items = FetchReleasesFromSonarrArr(cfg.Sonarr, upstream.Sonarr).releases.items

\* C16: during one aggregation at most one request is issued per enabled
\* service and none for a disabled one; the Sonarr response is fully
\* processed before the Radarr request is issued; if the Sonarr pipeline
\* fails the Radarr request is never issued.
C16_SonarrThenRadarr ==
    [](OneRequestPerService) /\ [][RadarrIssuedAfterSonarrProcessed]_vars

\* C16 witness: both services enabled, Sonarr answered with two entries
\* that were normalized, and then the Radarr request went out.
C16_Witness ==
    /\ pc = "done"
    /\ cfg.Sonarr.Enable /\ cfg.Radarr.Enable
    /\ Len(upstream.Sonarr.entries) = 2
    /\ Len(requests) = 2
    /\ requests[1].svc = "sonarr" /\ requests[2].svc = "radarr"

\* the Sonarr pipeline failed after its request; Radarr, enabled and
\* configured, was not asked
C16_WitnessSonarrFails ==
    /\ pc = "done"
    /\ cfg.Sonarr.Enable /\ cfg.Radarr.Enable /\ ~ConfigIncomplete(cfg.Radarr)
    /\ Failed
    /\ Len(requests) = 1 /\ requests[1].svc = "sonarr"

(***************************************************************************)
(* The widgets.  A widget is a record of its Go fields; Title,             *)
(* cacheDuration and Error are the fields of widgetBase the host's         *)
(* helpers write.  Durations are whole minutes.  initialized tells         *)
(* whether Initialize has run.                                             *)
(***************************************************************************)
\* Most items the RSS collaborator returns.
MaxItems == 3

\* widgetBase.withTitle(title): a title from the configuration is kept
withTitle(w, title) == IF w.Title = "" THEN [w EXCEPT !.Title = title] ELSE w

\* widgetBase.withCacheDuration(duration)
withCacheDuration(w, duration) == [w EXCEPT !.cacheDuration = duration]

\* widgetBase.canContinueUpdateAfterHandlingErr(err): a nil error and a
\* partial content let the update go on, any other error stops it
canContinueUpdateAfterHandlingErr(err) == err \in {NilErr, "partial content"}

\* the error the widget shows after the handler has seen err
HandledErr(err) == IF canContinueUpdateAfterHandlingErr(err) THEN NilErr ELSE err

\* settings normalized with a fixed default whatever was configured
CollapseAfterAlwaysDefault(collapseAfter) == 5

\* if widget.CollapseAfter == 0 || widget.CollapseAfter < -1 { widget.CollapseAfter = 5 }
CollapseAfterDefault(collapseAfter) ==
    IF collapseAfter = 0 \/ collapseAfter < 0 - 1 THEN 5 ELSE collapseAfter

\* if widget.CacheDuration == 0 { widget.CacheDuration = time.Minute * 5 }
CacheDurationDefault(cacheDuration) == IF cacheDuration = 0 THEN 5 ELSE cacheDuration

\* (*ArrReleases).Initialize and (*releasesSonarrWidget).initialize: the
\* same body but for the title
InitializeReleases(w, title) ==
    LET titled == withTitle(w, title)
        cached == [titled EXCEPT !.CacheDuration = CacheDurationDefault(titled.CacheDuration)]
        based == withCacheDuration(cached, cached.CacheDuration)
    IN  [based EXCEPT !.CollapseAfter = CollapseAfterDefault(based.CollapseAfter),
                      !.initialized = TRUE]

\* if widget.Limit <= 0 { widget.Limit = 25 }
LimitDefault(limit) == IF limit <= 0 THEN 25 ELSE limit

\* if widget.ThumbnailHeight < 0 { ... = 0 }, if widget.CardHeight < 0 { ... = 0 }
HeightDefault(height) == IF height < 0 THEN 0 ELSE height

\* if widget.Style == "detailed-list" { for i := range widget.FeedRequests { ...IsDetailed = true } }
DetailedRequests(style, feedRequests) ==
    IF style = "detailed-list"
    THEN [i \in 1..Len(feedRequests) |-> [feedRequests[i] EXCEPT !.IsDetailed = TRUE]]
    ELSE feedRequests

\* (*FreshRSS).Initialize
InitializeFreshRSS(w) ==
    LET based == withCacheDuration(withTitle(w, "FreshRSS Feed"), 60)
    IN  [based EXCEPT !.Limit = LimitDefault(based.Limit),
                      !.CollapseAfter = CollapseAfterDefault(based.CollapseAfter),
                      !.ThumbnailHeight = HeightDefault(based.ThumbnailHeight),
                      !.CardHeight = HeightDefault(based.CardHeight),
                      !.FeedRequests = DetailedRequests(based.Style, based.FeedRequests),
                      !.NoItemsMessage = "No items were returned from the feeds.",
                      !.initialized = TRUE]

\* convertToSonarrConfig(s), convertToRadarrConfig(r): a copy field by field
convertToConfig(s) ==
    Config(s.Enable, s.InternalUrl, s.SkipSsl, s.ApiKey, s.ExternalUrl, s.Timezone, 0, 0, "", FALSE)

\* fetchReleasesFromSonarrStack(Sonarr)
fetchReleasesFromSonarrStack(config, e, answer) ==
    LET s == fetchReleasesFromSonarr(config, e, answer)
    IN  IF s.err # NilErr THEN Failure(s.err, s.requests, s.win)
        ELSE Outcome(AppendAll(EmptySlice, s.releases), NilErr, s.requests, s.win)

\* an update that stores whatever the fetch returned
StoredAlways(current, fetched, err) == fetched

\* if !widget.canContinueUpdateAfterHandlingErr(err) { return }; widget.Releases = releases
Stored(current, fetched, err) ==
    IF ~canContinueUpdateAfterHandlingErr(err) THEN current ELSE fetched

\* an update that keeps the newest item out and stores the limit items after it
LimitedFromSecond(items, limit) ==
    IF Len(items.items) > limit
    THEN [nil |-> items.nil, items |-> SubSeq(items.items, 2, limit + 1)]
    ELSE items

\* if len(items) > widget.Limit { items = items[:widget.Limit] }
Limited(items, limit) ==
    IF Len(items.items) > limit
    THEN [nil |-> items.nil, items |-> SubSeq(items.items, 1, limit)]
    ELSE items

\* ArrReleases and releasesSonarrWidget as loaded from the configuration
\* (releasesSonarrWidget keeps its one Config in Sonarr); yaml remembers
\* the settings as the YAML document gave them
ReleasesWidget(kind, title, collapseAfter, cacheDuration, sonarr, radarr) ==
    [kind |-> kind, Title |-> title, CollapseAfter |-> collapseAfter,
     CacheDuration |-> cacheDuration, cacheDuration |-> 0,
     Sonarr |-> sonarr, Radarr |-> radarr,
     yaml |-> [CollapseAfter |-> collapseAfter, CacheDuration |-> cacheDuration, Limit |-> 0],
     Releases |-> NilSlice, Error |-> NilErr, initialized |-> FALSE]

\* FreshRSS as loaded from the configuration
FreshRSSWidget(title, limit, collapseAfter, thumbnailHeight, cardHeight, style) ==
    [kind |-> "FreshRSS", Title |-> title, Limit |-> limit, CollapseAfter |-> collapseAfter,
     ThumbnailHeight |-> thumbnailHeight, CardHeight |-> cardHeight, Style |-> style,
     FeedRequests |-> <<[Url |-> <<"https://blog.example/feed">>, IsDetailed |-> FALSE]>>,
     NoItemsMessage |-> "", cacheDuration |-> 0,
     FreshRSSUrl |-> <<"https://rss.example">>, FreshRSSUser |-> "user", FreshRSSApiPass |-> "pass",
     yaml |-> [CollapseAfter |-> collapseAfter, CacheDuration |-> 0, Limit |-> limit],
     Releases |-> NilSlice, Error |-> NilErr, initialized |-> FALSE]

\* the list a widget shows: Releases, or Items of FreshRSS (kept in Releases)
Shown(w) == w.Releases

CollapseAfters == {0 - 2, 0 - 1, 0, 1, 7}
CacheDurations == {0 - 1, 0, 30}
Limits == {0 - 1, 0, 1, 2}
WidgetTitles == {"", "Mine"}
Enabled(enable) == Config(enable, <<"http://arr:8989">>, FALSE, "secret", <<>>, "", 0, 0, "", FALSE)

Widgets ==
    {ReleasesWidget("ArrReleases", t, c, d, Enabled(TRUE), Enabled(e)) :
        t \in WidgetTitles, c \in CollapseAfters, d \in CacheDurations, e \in BOOLEAN}
    \cup {ReleasesWidget("releasesSonarrWidget", t, c, d, Enabled(TRUE), Unused) :
        t \in WidgetTitles, c \in CollapseAfters, d \in CacheDurations}
    \cup {FreshRSSWidget(t, l, c, h, 2 - h, IF h < 0 THEN "detailed-list" ELSE "") :
        t \in WidgetTitles, l \in Limits, c \in CollapseAfters, h \in {0 - 1, 3}}

\* the item lists the RSS collaborator returns, newest first
RssItems == {[nil |-> FALSE, items |-> [i \in 1..n |-> n + 1 - i]] : n \in 0..MaxItems}

RssAnswers ==
    {RssAnswer("status", NilSlice, NilErr), RssAnswer("none", NilSlice, "no content")}
    \cup {RssAnswer("none", items, err) : items \in RssItems, err \in {NilErr, "partial content"}}

\* what the upstreams answer to the updates of a releases widget
WidgetSonarrAnswers ==
    {Answer("transport", <<>>), Answer("none", <<>>), Answer("none", <<SonarrA>>),
     Answer("none", <<SonarrD, SonarrA>>)}
WidgetRadarrAnswers == {Answer("status", <<>>), Answer("none", <<RadarrA>>)}

InitWidget ==
    /\ pc = "ready"
    /\ fn = "none"
    /\ cfg = [Sonarr |-> Unused, Radarr |-> Unused]
    /\ env = [now |-> At(10, 22), local |-> 0]
    /\ upstream = [Sonarr |-> NoAnswer, Radarr |-> NoAnswer,
                   FreshRss |-> RssAnswer("none", NilSlice, NilErr)]
    /\ requests = <<>>
    /\ ret = [releases |-> NilSlice, err |-> NilErr]
    /\ win = NoWindow
    /\ clients = SharedClients
    /\ sent = <<>>
    /\ widget \in Widgets
    /\ accepted = NilSlice

\* the host calls Initialize
InitializeArrReleases ==
    /\ widget.kind = "ArrReleases"
    /\ widget' = InitializeReleases(widget, "Releasing Today")
    /\ UNCHANGED <<fn, cfg, env, upstream, pc, requests, ret, win, clients, sent, accepted>>

InitializeSonarrWidget ==
    /\ widget.kind = "releasesSonarrWidget"
    /\ widget' = InitializeReleases(widget, "Sonarr: Releasing Today")
    /\ UNCHANGED <<fn, cfg, env, upstream, pc, requests, ret, win, clients, sent, accepted>>

InitializeFreshRSSWidget ==
    /\ widget.kind = "FreshRSS"
    /\ widget' = InitializeFreshRSS(widget)
    /\ UNCHANGED <<fn, cfg, env, upstream, pc, requests, ret, win, clients, sent, accepted>>

\* an Update of the initialized widget: f, called under configs with the
\* upstream answering answers, returned o; shown is what Update would store
Updated(f, configs, answers, o, shown) ==
    /\ widget.initialized
    /\ Len(sent) < MaxFetches
    /\ fn' = f
    /\ cfg' = configs
    /\ upstream' = answers
    /\ pc' = "done"
    /\ requests' = o.requests
    /\ ret' = [releases |-> o.releases, err |-> o.err]
    /\ win' = o.win
    /\ sent' = sent \o SentAll(o.requests, configs, clients)
    /\ widget' = [widget EXCEPT !.Releases = Stored(widget.Releases, shown, o.err),
                                !.Error = HandledErr(o.err)]
    /\ accepted' = IF canContinueUpdateAfterHandlingErr(o.err) THEN o.releases ELSE accepted
    /\ UNCHANGED <<env, clients>>

\* (*ArrReleases).Update
UpdateArrReleases ==
    /\ widget.kind = "ArrReleases"
    /\ \E a \in WidgetSonarrAnswers, b \in WidgetRadarrAnswers :
          LET configs == [Sonarr |-> convertToConfig(widget.Sonarr),
                          Radarr |-> convertToConfig(widget.Radarr)]
              answers == [upstream EXCEPT !.Sonarr = a, !.Radarr = b]
              o == FetchReleasesFromArrStack(configs.Sonarr, configs.Radarr, answers)
          IN  Updated("arr.FetchReleasesFromArrStack", configs, answers, o, o.releases)

\* (*releasesSonarrWidget).update
UpdateSonarrWidget ==
    /\ widget.kind = "releasesSonarrWidget"
    /\ \E a \in WidgetSonarrAnswers \cup {Answer("malformed", <<>>)} :
          LET configs == [Sonarr |-> widget.Sonarr, Radarr |-> Unused]
              answers == [upstream EXCEPT !.Sonarr = a]
              o == fetchReleasesFromSonarrStack(widget.Sonarr, env, a)
          IN  Updated("glance.fetchReleasesFromSonarrStack", configs, answers, o, o.releases)

\* (*FreshRSS).Update
UpdateFreshRSS ==
    /\ widget.kind = "FreshRSS"
    /\ \E a \in RssAnswers :
          LET configs == [Sonarr |-> Unused, Radarr |-> Unused]
              answers == [upstream EXCEPT !.FreshRss = a]
              o == GetItemsFromFreshRssFeeds(
                       FreshRssConfig(widget.FreshRSSUrl, widget.FreshRSSUser, widget.FreshRSSApiPass), a)
          IN  Updated("feed.GetItemsFromFreshRssFeeds", configs, answers, o,
                      Limited(o.releases, widget.Limit))

NextWidget ==
    \/ InitializeArrReleases
    \/ InitializeSonarrWidget
    \/ InitializeFreshRSSWidget
    \/ UpdateArrReleases
    \/ UpdateSonarrWidget
    \/ UpdateFreshRSS

SpecWidget == InitWidget /\ [][NextWidget]_vars

ReleasesWidgets == {"ArrReleases", "releasesSonarrWidget"}

\* a step after which the last fetch stands refused by the error handler
\* has left the shown list as it was
RefusedUpdateKeepsData ==
    ~canContinueUpdateAfterHandlingErr(ret'.err) => Shown(widget') = Shown(widget)

\* C17: a widget keeps its last good data.  An Update whose fetch fails,
\* the error handler refusing to continue, leaves the shown list unchanged;
\* the Releases of a releases widget always equal the list returned by the
\* most recent Update that was allowed to continue, or the initial empty
\* value.
C17_KeepsLastGoodData ==
    /\ [](widget.kind \in ReleasesWidgets => widget.Releases = accepted)
    /\ [][RefusedUpdateKeepsData]_vars

\* C17 witness: the aggregation widget shows releases of an earlier update
\* after an update whose fetch failed.
C17_Witness ==
    /\ widget.kind = "ArrReleases"
    /\ Failed /\ widget.Error # NilErr
    /\ Len(sent) >= 2
    /\ Len(widget.Releases.items) > 0
    /\ widget.Releases = accepted

\* the same for the Sonarr widget and for FreshRSS
C17_WitnessSonarr ==
    /\ widget.kind = "releasesSonarrWidget"
    /\ Failed /\ widget.Error # NilErr
    /\ Len(widget.Releases.items) > 0

C17_WitnessFreshRSS ==
    /\ widget.kind = "FreshRSS"
    /\ Failed /\ widget.Error # NilErr
    /\ Len(widget.Releases.items) > 0

\* Initialize of the widget's type, called once more
InitializedAgain(w) ==
    CASE w.kind = "ArrReleases" -> InitializeReleases(w, "Releasing Today")
      [] w.kind = "releasesSonarrWidget" -> InitializeReleases(w, "Sonarr: Releasing Today")
      [] OTHER -> InitializeFreshRSS(w)

\* C20: Initialize normalizes the display settings.  A collapse-after of 0
\* or below -1 becomes 5 and any other value, -1 included, is kept; in the
\* releases widgets a cache-duration of 0 becomes 5 minutes and any other
\* value is kept.  So after Initialize collapse-after is -1 or at least 1,
\* and a second Initialize changes nothing.
C20_InitializeNormalizes ==
    widget.initialized =>
        /\ (widget.yaml.CollapseAfter = 0 \/ widget.yaml.CollapseAfter < 0 - 1)
              => widget.CollapseAfter = 5
        /\ (widget.yaml.CollapseAfter = 0 - 1 \/ widget.yaml.CollapseAfter >= 1)
              => widget.CollapseAfter = widget.yaml.CollapseAfter
        /\ widget.CollapseAfter = 0 - 1 \/ widget.CollapseAfter >= 1
        /\ widget.kind \in ReleasesWidgets =>
              /\ widget.yaml.CacheDuration = 0 => widget.CacheDuration = 5
              /\ widget.yaml.CacheDuration # 0 => widget.CacheDuration = widget.yaml.CacheDuration
        /\ InitializedAgain(widget) = widget

\* C20 witness: a releases widget configured with collapse-after -2 and
\* cache-duration 0 is initialized, has been updated, and shows 5 and 5.
C20_Witness ==
    /\ widget.initialized /\ widget.kind = "ArrReleases"
    /\ widget.yaml.CollapseAfter = 0 - 2 /\ widget.CollapseAfter = 5
    /\ widget.yaml.CacheDuration = 0 /\ widget.CacheDuration = 5
    /\ Len(sent) > 0

\* collapse-after -1 and a negative cache-duration are kept
C20_WitnessKept ==
    /\ widget.initialized /\ widget.kind = "releasesSonarrWidget"
    /\ widget.yaml.CollapseAfter = 0 - 1 /\ widget.CollapseAfter = 0 - 1
    /\ widget.yaml.CacheDuration = 0 - 1 /\ widget.CacheDuration = 0 - 1

\* FreshRSS with collapse-after 7 keeps it
C20_WitnessFreshRSS ==
    /\ widget.initialized /\ widget.kind = "FreshRSS"
    /\ widget.yaml.CollapseAfter = 7 /\ widget.CollapseAfter = 7

\* C18: in the day-offset Sonarr fetch the range requested from upstream
\* covers the acceptance window, whatever the day offset, the lookback,
\* the configured zone and the process zone: query start <= window start
\* and window end <= query end, so every entry the filter keeps airs inside
\* the requested range.
C18_QueryCoversWindow ==
    (Returned /\ win.set) =>
        /\ Len(requests) = 1
        /\ requests[1].ranged
        /\ requests[1].start <= win.startDateLocal.inst
        /\ win.endDateLocal.inst <= requests[1].end
        /\ \A i \in 1..Len(upstream.Sonarr.entries) :
              AirsInWindow(upstream.Sonarr.entries[i]) =>
                  /\ requests[1].start <= upstream.Sonarr.entries[i].AirDateUtc.inst
                  /\ upstream.Sonarr.entries[i].AirDateUtc.inst <= requests[1].end

(***************************************************************************)
(* The glance Sonarr fetch over thumbnail settings, URLs and tags.         *)
(***************************************************************************)
ThumbnailConfigs ==
    {Config(TRUE, u, FALSE, k, x, "", 0, 0, g, t) :
        u \in InternalUrls \ {<<>>}, k \in ApiKeys, x \in ExternalUrls,
        g \in {"", "anime"}, t \in BOOLEAN}

InitThumbnail ==
    /\ InitCommon
    /\ fn = "glance.fetchReleasesFromSonarr"
    /\ env = [now |-> At(10, 22), local |-> 0]
    /\ \E c \in ThumbnailConfigs : cfg = [Sonarr |-> c, Radarr |-> Unused]
    /\ \E a \in Answers({SonarrA, SonarrD, SonarrE}, MaxWindowEntries) :
            upstream = [Sonarr |-> a, Radarr |-> NoAnswer]

NextThumbnail == CallGlanceSonarr

SpecThumbnail == InitThumbnail /\ [][NextThumbnail]_vars

\* the key is one of the pieces of a string
KeyIn(pieces, key) == \E i \in 1..Len(pieces) : pieces[i] = key

\* the key shows in a field of release r other than the cover image URL
KeyOutsideCover(r, key) ==
    \/ r.Title = key \/ r.EpisodeTitle = key \/ r.Overview = key
    \/ KeyIn(r.SeasonNumber, key) \/ KeyIn(r.EpisodeNumber, key)
    \/ KeyIn(r.Url, key)
    \/ r.AirDateUtc.prefix = key

\* C19: in the glance Sonarr fetch the API key is sent in the X-Api-Key
\* header only, never in the request URL.  With internal-insecure-thumbnail
\* false it is in no field of any returned release; it can be in an output
\* field, the cover image URL, only when internal-insecure-thumbnail is true.
C19_ApiKeyStaysInHeader ==
    (Returned /\ fn = "glance.fetchReleasesFromSonarr" /\ cfg.Sonarr.ApiKey # "") =>
        /\ \A i \in 1..Len(requests) :
              /\ ~KeyIn(requests[i].url, cfg.Sonarr.ApiKey)
              /\ requests[i].apiKey = cfg.Sonarr.ApiKey
        /\ \A i \in 1..Len(ret.releases.items) :
              LET r == ret.releases.items[i]
              IN  /\ ~KeyOutsideCover(r, cfg.Sonarr.ApiKey)
                  /\ KeyIn(r.ImageCoverUrl, cfg.Sonarr.ApiKey) => cfg.Sonarr.InternalThumbnail

\* C19 witness: thumbnails off, tags set, a request went out and a release
\* with a poster came back.
C19_Witness ==
    /\ Returned /\ fn = "glance.fetchReleasesFromSonarr"
    /\ ~cfg.Sonarr.InternalThumbnail /\ cfg.Sonarr.Tags = "anime"
    /\ cfg.Sonarr.ApiKey = "secret"
    /\ Len(requests) = 1 /\ requests[1].apiKey = "secret"
    /\ \E i \in 1..Len(ret.releases.items) :
          ret.releases.items[i].ImageCoverUrl = <<"https://img/poster.jpg">>

\* thumbnails on: the cover image URL of a returned release carries the key
C19_WitnessThumbnail ==
    /\ Returned /\ fn = "glance.fetchReleasesFromSonarr"
    /\ cfg.Sonarr.InternalThumbnail
    /\ \E i \in 1..Len(ret.releases.items) :
          KeyIn(ret.releases.items[i].ImageCoverUrl, "secret")

\* short is the beginning of long
IsPrefix(short, long) ==
    /\ Len(short) <= Len(long)
    /\ \A i \in 1..Len(short) : short[i] = long[i]

\* C21: for the FreshRSS widget, after Initialize the limit is at least 1,
\* a configured limit of 0 or less having become 25 (a positive one is
\* kept); and after any sequence of updates the stored Items are a prefix
\* of the most recently accepted fetched item list, of length at most the
\* limit.
C21_ItemsArePrefixWithinLimit ==
    (widget.kind = "FreshRSS" /\ widget.initialized) =>
        /\ widget.Limit >= 1
        /\ widget.yaml.Limit <= 0 => widget.Limit = 25
        /\ widget.yaml.Limit >= 1 => widget.Limit = widget.yaml.Limit
        /\ Len(Shown(widget).items) <= widget.Limit
        /\ IsPrefix(Shown(widget).items, accepted.items)

\* C21 witness: limit 2, the accepted fetch returned three items, the two
\* newest are stored, and a later update was refused.
C21_Witness ==
    /\ widget.kind = "FreshRSS" /\ widget.initialized
    /\ widget.Limit = 2
    /\ accepted.items = <<3, 2, 1>>
    /\ Shown(widget).items = <<3, 2>>
    /\ Failed /\ widget.Error # NilErr

\* a configured limit of 0 became 25 and the whole list is stored
C21_WitnessDefault ==
    /\ widget.kind = "FreshRSS" /\ widget.initialized
    /\ widget.yaml.Limit = 0 /\ widget.Limit = 25
    /\ Shown(widget).items = <<3, 2, 1>>

====
